---------------------------- MODULE Spec2Model ----------------------------
(***************************************************************************)
(* N-Puzzle solver: the move generator (actions.py), the heuristics        *)
(* (heuristics.py), the generic search loop and its seven frontier         *)
(* strategies (search_strategies.py), and strategy_by_name.                *)
(*                                                                         *)
(* A state is a grid stored as in the source: state[x][y] is the tile in   *)
(* column x, row y, with 0-based x in 0..width-1 and y in 0..height-1.     *)
(* Tile labels are the one-character strings '0'..'5' of a puzzle file,    *)
(* written here as the numbers 0..5 (same order, same equality); 0 is the  *)
(* empty tile.                                                             *)
(***************************************************************************)
EXTENDS Integers, Sequences, FiniteSets

VARIABLES
    initial_state,   \* argument of the strategy function
    desired_state,   \* argument of the strategy function
    strategy,        \* which strategy function runs: a key of `methods', or NoStrategy
    nodes,           \* every Node constructed so far, in construction order
    current_node,    \* index into nodes of _search's current_node
    closed_set,      \* _search's closed_set: a sorted list of states
    open_set,        \* the strategy's open_set (list, deque or heap array)
    paused_set,      \* depth_limited's paused_set
    iteration,       \* depth_limited's iteration
    max_depth,       \* depth_limited's max_depth
    pc,              \* "loop": in _search's while loop; "done": returned;
                     \* "select": before strategy_by_name; "selected"/"error": after
    result,          \* the returned tuple <<count, actions>>, or NotReturned
    name,            \* argument of strategy_by_name
    any_tie          \* TRUE when equal-priority entries leave the priority queue in any order

vars == <<initial_state, desired_state, strategy, nodes, current_node, closed_set,
          open_set, paused_set, iteration, max_depth, pc, result, name, any_tie>>

\* Python's None, by the type of the value it stands in for
None == "None"               \* Node.action_taken of the root
NoneState == <<>>            \* the state returned by an invalid move
NoneIndex == -1              \* _bisect_index: value not found
NoneActions == <<None>>      \* the solution of a search that found none
NotReturned == <<>>          \* result while the search is still running
NoStrategy == "NoStrategy"   \* strategy while no strategy function has been called
NoName == <<>>               \* name when strategy_by_name is not part of the run

-----------------------------------------------------------------------------
(* Bounds of the model *)

\* all pairs of grids with width * height <= MaxArea are searched
MaxArea == 4

-----------------------------------------------------------------------------
(* F applied to value, the value being computed once, as a Python assignment *)
(* computes its right-hand side once                                         *)

Bind(value, F(_)) == CHOOSE r \in {F(v) : v \in {value}} : TRUE

-----------------------------------------------------------------------------
(* Grids *)

Width(state) == Cardinality(DOMAIN state)        \* len(state)
Height(state) == Cardinality(DOMAIN state[0])    \* len(state[0])

Cells(state) == (0 .. Width(state) - 1) \X (0 .. Height(state) - 1)

\* the list [[...], ...] written column by column, as a 0-based grid
Grid(columns) ==
    [x \in 0 .. Len(columns) - 1 |->
        [y \in 0 .. Len(columns[1]) - 1 |-> columns[x + 1][y + 1]]]

LabelOrders(n) ==
    {p \in [1 .. n -> 0 .. n - 1] : \A i, j \in 1 .. n : p[i] = p[j] => i = j}

\* every arrangement of the labels 0..w*h-1 on a grid of w columns and h rows
GridsOf(w, h) ==
    {[x \in 0 .. w - 1 |-> [y \in 0 .. h - 1 |-> p[x * h + y + 1]]] :
        p \in LabelOrders(w * h)}

Dimensions ==
    {d \in (1 .. MaxArea) \X (1 .. MaxArea) : d[1] * d[2] <= MaxArea}

\* Python's list comparison a < b on two grids of the same dimensions:
\* the first differing column decides, and within it the first differing tile
RECURSIVE FirstDiff(_, _, _, _)
FirstDiff(a, b, i, n) ==
    IF i >= n THEN n
    ELSE IF a[i] # b[i] THEN i
    ELSE FirstDiff(a, b, i + 1, n)

StateLess(a, b) ==
    LET x == FirstDiff(a, b, 0, Width(a))
    IN  IF x = Width(a) THEN FALSE
        ELSE LET y == FirstDiff(a[x], b[x], 0, Height(a))
             IN  a[x][y] < b[x][y]

-----------------------------------------------------------------------------
(* helpers.py *)

ValueError == "ValueError"

\* the first cell holding the tile, columns scanned in order and rows within them
coords_of_tile(state, tile_to_find) ==
    Bind({c \in Cells(state) : state[c[1]][c[2]] = tile_to_find},
         LAMBDA hits :
            IF hits = {} THEN ValueError
            ELSE CHOOSE c \in hits :
                    \A d \in hits : c[1] < d[1] \/ (c[1] = d[1] /\ c[2] <= d[2]))

-----------------------------------------------------------------------------
(* actions.py *)

\* _move with only the upper bounds tested: Python's index -1 is the last cell
_move_negative_index(state, tile_to_swap) ==
    LET c  == coords_of_tile(state, 0)
        x  == c[1]
        y  == c[2]
        x2 == x + tile_to_swap[1]
        y2 == y + tile_to_swap[2]
        xw == x2 % Width(state)
        yw == y2 % Height(state)
    IN  IF x2 >= Width(state) \/ y2 >= Height(state)
        THEN NoneState
        ELSE [i \in DOMAIN state |->
                [j \in DOMAIN state[i] |->
                    IF <<i, j>> = <<x, y>> THEN state[xw][yw]
                    ELSE IF <<i, j>> = <<xw, yw>> THEN state[x][y]
                    ELSE state[i][j]]]

\* _move with the swap written as two assignments: the second one reads the
\* cell the first one has overwritten, so the blank is lost
_move_sequential_swap(state, tile_to_swap) ==
    LET c  == coords_of_tile(state, 0)
        x  == c[1]
        y  == c[2]
        x2 == x + tile_to_swap[1]
        y2 == y + tile_to_swap[2]
    IN  IF x2 \notin 0 .. Width(state) - 1 \/ y2 \notin 0 .. Height(state) - 1
        THEN NoneState
        ELSE [i \in DOMAIN state |->
                [j \in DOMAIN state[i] |->
                    IF <<i, j>> = <<x, y>> THEN state[x2][y2] ELSE state[i][j]]]

_move(state, tile_to_swap) ==
    Bind(coords_of_tile(state, 0), LAMBDA c :
        LET x  == c[1]
            y  == c[2]
            x2 == x + tile_to_swap[1]
            y2 == y + tile_to_swap[2]
        IN  IF x2 \notin 0 .. Width(state) - 1 \/ y2 \notin 0 .. Height(state) - 1
            THEN NoneState
            ELSE [i \in DOMAIN state |->
                    [j \in DOMAIN state[i] |->
                        IF <<i, j>> = <<x, y>> THEN state[x2][y2]
                        ELSE IF <<i, j>> = <<x2, y2>> THEN state[x][y]
                        ELSE state[i][j]]])

up(state) == _move(state, <<0, -1>>)
left(state) == _move(state, <<-1, 0>>)
down(state) == _move(state, <<0, 1>>)
right(state) == _move(state, <<1, 0>>)

-----------------------------------------------------------------------------
(* heuristics.py *)

Abs(n) == IF n < 0 THEN -n ELSE n

number_of_misplaced_tiles(current_state, desired_state_) ==
    Cardinality({c \in Cells(current_state) :
                    current_state[c[1]][c[2]] # desired_state_[c[1]][c[2]]})

\* the distance manhattan_distance adds for the tile at column x, row y
tile_distance(current_state, desired_state_, x, y) ==
    LET tile == current_state[x][y]
    IN  Bind(coords_of_tile(current_state, tile), LAMBDA current_coords :
        Bind(coords_of_tile(desired_state_, tile), LAMBDA desired_coords :
             Abs(current_coords[1] - desired_coords[1])
             + Abs(current_coords[2] - desired_coords[2])))

\* total_distance over the tiles from column x, row y on, in the loops' order
RECURSIVE total_distance(_, _, _, _)
total_distance(current_state, desired_state_, x, y) ==
    IF x >= Width(current_state) THEN 0
    ELSE IF y >= Height(current_state)
         THEN total_distance(current_state, desired_state_, x + 1, 0)
         ELSE tile_distance(current_state, desired_state_, x, y)
              + total_distance(current_state, desired_state_, x, y + 1)

manhattan_distance(current_state, desired_state_) ==
    total_distance(current_state, desired_state_, 0, 0)

zero_heuristic(current_state, desired_state_) == 0

\* a call heuristic(current_state, desired_state) of the function passed as
\* the strategies' `heuristic' argument, the function being given by name
heuristic_call(heuristic, current_state, desired_state_) ==
    CASE heuristic = "manhattan_distance" ->
            manhattan_distance(current_state, desired_state_)
      [] heuristic = "number_of_misplaced_tiles" ->
            number_of_misplaced_tiles(current_state, desired_state_)
      [] heuristic = "zero_heuristic" ->
            zero_heuristic(current_state, desired_state_)

-----------------------------------------------------------------------------
(* search_strategies.py: Node, closed set *)

NoParent == 0

\* Node.__init__ copying the parent's num_parents without adding 1
Node_parent_depth(ns, state, parent, action_taken) ==
    [state |-> state, parent |-> parent, action_taken |-> action_taken,
     num_parents |-> IF parent = NoParent THEN 0 ELSE ns[parent].num_parents]

\* Node.__init__; parent is an index into ns, or NoParent
Node(ns, state, parent, action_taken) ==
    [state |-> state, parent |-> parent, action_taken |-> action_taken,
     num_parents |-> IF parent = NoParent THEN 0 ELSE ns[parent].num_parents + 1]

\* bisect.bisect_left(collection, value), on Python's 0-based positions lo..hi
RECURSIVE bisect_left(_, _, _, _)
bisect_left(collection, value, lo, hi) ==
    IF lo >= hi THEN lo
    ELSE LET mid == (lo + hi) \div 2
         IN  IF StateLess(collection[mid + 1], value)
             THEN bisect_left(collection, value, mid + 1, hi)
             ELSE bisect_left(collection, value, lo, mid)

\* bisect.insort(collection, value): insert to the right of equal entries
RECURSIVE bisect_right(_, _, _, _)
bisect_right(collection, value, lo, hi) ==
    IF lo >= hi THEN lo
    ELSE LET mid == (lo + hi) \div 2
         IN  IF StateLess(value, collection[mid + 1])
             THEN bisect_right(collection, value, lo, mid)
             ELSE bisect_right(collection, value, mid + 1, hi)

insort(collection, value) ==
    LET i == bisect_right(collection, value, 0, Len(collection))
    IN  SubSeq(collection, 1, i) \o <<value>> \o SubSeq(collection, i + 1, Len(collection))

_bisect_index(collection, value) ==
    LET i == bisect_left(collection, value, 0, Len(collection))
    IN  IF i # Len(collection) /\ collection[i + 1] = value THEN i ELSE NoneIndex

\* _state_is_valid without the closed-set test
_state_is_valid_not_none(state, closed) ==
    state # NoneState

_state_is_valid(state, closed) ==
    state # NoneState /\ _bisect_index(closed, state) = NoneIndex

-----------------------------------------------------------------------------
(* queue.PriorityQueue: a heapq array of <<priority, node>> entries.        *)
(* Tuples compare by priority first; on equal priorities the two nodes are  *)
(* compared, and Node.__lt__ answers False.                                 *)

EntryLess(a, b) == a[1] < b[1]

\* heapq._siftdown(heap, startpos, pos) with newitem carried along
RECURSIVE _siftdown(_, _, _, _)
_siftdown(heap, startpos, pos, newitem) ==
    IF pos > startpos
    THEN LET parentpos == (pos - 1) \div 2
             parent == heap[parentpos + 1]
         IN  IF EntryLess(newitem, parent)
             THEN Bind([heap EXCEPT ![pos + 1] = parent],
                       LAMBDA h : _siftdown(h, startpos, parentpos, newitem))
             ELSE [heap EXCEPT ![pos + 1] = newitem]
    ELSE [heap EXCEPT ![pos + 1] = newitem]

\* heapq._siftup(heap, pos): bubble the smaller child up until a leaf, then sift down
RECURSIVE _siftup(_, _, _, _)
_siftup(heap, startpos, pos, newitem) ==
    LET endpos == Len(heap)
        leftpos == 2 * pos + 1
        rightpos == leftpos + 1
        childpos == IF rightpos < endpos
                       /\ ~EntryLess(heap[leftpos + 1], heap[rightpos + 1])
                    THEN rightpos ELSE leftpos
    IN  IF leftpos < endpos
        THEN Bind([heap EXCEPT ![pos + 1] = heap[childpos + 1]],
                  LAMBDA h : _siftup(h, startpos, childpos, newitem))
        ELSE _siftdown(heap, startpos, pos, newitem)

\* PriorityQueue.put(item) -> heappush
heappush(heap, item) ==
    Bind(Append(heap, item), LAMBDA h : _siftdown(h, 0, Len(h) - 1, item))

\* PriorityQueue.get_nowait() -> heappop; only called on a non-empty heap
heappop_item(heap) == heap[1]

heappop_rest(heap) ==
    Bind(SubSeq(heap, 1, Len(heap) - 1),
         LAMBDA rest : IF rest = <<>> THEN rest
                       ELSE _siftup(rest, 0, 0, heap[Len(heap)]))

-----------------------------------------------------------------------------
(* The seven strategies: open_set_add and open_set_get of each.             *)
(* f is the strategy's mutable data [open_set, paused_set, iteration];      *)
(* ns is the list of nodes, node an index into it.                          *)
(* A get answers [ok, node, f]: ok is FALSE when the call raises            *)
(* IndexError or queue.Empty.                                               *)

Got(node, f) == [ok |-> TRUE, node |-> node, f |-> f]
Raised(f) == [ok |-> FALSE, node |-> NoParent, f |-> f]

\* depth_first: open_set.append, open_set.pop
depth_first_open_set_add(f, ns, node) ==
    [f EXCEPT !.open_set = Append(@, node)]

depth_first_open_set_get(f) ==
    IF f.open_set = <<>> THEN Raised(f)
    ELSE Got(f.open_set[Len(f.open_set)],
             [f EXCEPT !.open_set = SubSeq(@, 1, Len(@) - 1)])

\* breadth_first: open_set.append, open_set.popleft
breadth_first_open_set_add(f, ns, node) ==
    [f EXCEPT !.open_set = Append(@, node)]

\* breadth_first taking from the right end of the deque (pop for popleft)
breadth_first_open_set_get_pop(f) ==
    IF f.open_set = <<>> THEN Raised(f)
    ELSE Got(f.open_set[Len(f.open_set)],
             [f EXCEPT !.open_set = SubSeq(@, 1, Len(@) - 1)])

breadth_first_open_set_get(f) ==
    IF f.open_set = <<>> THEN Raised(f)
    ELSE Got(Head(f.open_set), [f EXCEPT !.open_set = Tail(@)])

\* the open_set_get shared by greedy_best_first, a_star, dijkstra and hill_climb
priority_open_set_get(f) ==
    IF f.open_set = <<>> THEN Raised(f)
    ELSE Got(heappop_item(f.open_set)[2],
             [f EXCEPT !.open_set = heappop_rest(@)])

greedy_best_first_open_set_add(f, ns, node, desired, heuristic) ==
    Bind(heuristic_call(heuristic, ns[node].state, desired),
         LAMBDA priority : [f EXCEPT !.open_set = heappush(@, <<priority, node>>)])

a_star_open_set_add(f, ns, node, desired, heuristic) ==
    Bind(ns[node].num_parents + heuristic_call(heuristic, ns[node].state, desired),
         LAMBDA priority : [f EXCEPT !.open_set = heappush(@, <<priority, node>>)])

\* dijkstra calling a_star without the heuristic argument: a_star's default applies
dijkstra_open_set_add_default_heuristic(f, ns, node, desired) ==
    a_star_open_set_add(f, ns, node, desired, "manhattan_distance")

\* dijkstra: a_star with heuristic=lambda current_state, desired_state: 0
dijkstra_open_set_add(f, ns, node, desired) ==
    a_star_open_set_add(f, ns, node, desired, "zero_heuristic")

\* depth_limited
\* depth_limited never pausing a node: both branches append to open_set
depth_limited_open_set_add_no_pause(f, ns, node) ==
    [f EXCEPT !.open_set = Append(@, node)]

depth_limited_open_set_add(f, ns, node) ==
    IF ns[node].num_parents < max_depth * f.iteration
    THEN [f EXCEPT !.open_set = Append(@, node)]
    ELSE [f EXCEPT !.paused_set = Append(@, node)]

\* depth_limited never taking up the paused nodes again
depth_limited_open_set_get_no_resume(f) ==
    IF f.open_set = <<>> THEN Raised(f)
    ELSE Got(f.open_set[Len(f.open_set)],
             [f EXCEPT !.open_set = SubSeq(@, 1, Len(@) - 1)])

\* depth_limited taking up the paused nodes without incrementing iteration
depth_limited_open_set_get_keep_iteration(f) ==
    LET g == IF Len(f.open_set) = 0
             THEN [open_set |-> f.paused_set, paused_set |-> <<>>,
                   iteration |-> f.iteration]
             ELSE f
    IN  IF g.open_set = <<>> THEN Raised(g)
        ELSE Got(g.open_set[Len(g.open_set)],
                 [g EXCEPT !.open_set = SubSeq(@, 1, Len(@) - 1)])

depth_limited_open_set_get(f) ==
    Bind(IF Len(f.open_set) = 0
         THEN [open_set |-> f.paused_set, paused_set |-> <<>>,
               iteration |-> f.iteration + 1]
         ELSE f,
         LAMBDA g : IF g.open_set = <<>> THEN Raised(g)
                    ELSE Got(g.open_set[Len(g.open_set)],
                             [g EXCEPT !.open_set = SubSeq(@, 1, Len(@) - 1)]))

\* hill_climb
backtracking_allowed == 2

UnboundLocalError == "UnboundLocalError"

\* hill_climb taking the parent's priority at the node's own depth
hill_climb_open_set_add_parent_depth(f, ns, node, desired, heuristic) ==
    IF ns[node].num_parents > 0
    THEN LET parent_priority ==
                 ns[node].num_parents
                 + heuristic_call(heuristic, ns[ns[node].parent].state, desired)
             current_priority ==
                 ns[node].num_parents + heuristic_call(heuristic, ns[node].state, desired)
         IN  IF current_priority > parent_priority + backtracking_allowed
             THEN f
             ELSE [f EXCEPT !.open_set = heappush(@, <<current_priority, node>>)]
    ELSE UnboundLocalError

hill_climb_open_set_add(f, ns, node, desired, heuristic) ==
    IF ns[node].num_parents > 0
    THEN LET parent_priority ==
                 ns[node].num_parents - 1
                 + heuristic_call(heuristic, ns[ns[node].parent].state, desired)
         IN  Bind(ns[node].num_parents + heuristic_call(heuristic, ns[node].state, desired),
                  LAMBDA current_priority :
                      IF current_priority > parent_priority + backtracking_allowed
                      THEN f
                      ELSE [f EXCEPT !.open_set = heappush(@, <<current_priority, node>>)])
    ELSE UnboundLocalError

\* the keys of `methods' in strategy_by_name
Strategies == {"DFS", "BFS", "GBFS", "AS", "DIJ", "DL", "HC"}

PriorityStrategies == {"GBFS", "AS", "DIJ", "HC"}

open_set_add(strat, f, ns, node, desired) ==
    CASE strat = "DFS"  -> depth_first_open_set_add(f, ns, node)
      [] strat = "BFS"  -> breadth_first_open_set_add(f, ns, node)
      [] strat = "GBFS" ->
            greedy_best_first_open_set_add(f, ns, node, desired, "manhattan_distance")
      [] strat = "AS"   -> a_star_open_set_add(f, ns, node, desired, "manhattan_distance")
      [] strat = "DIJ"  -> dijkstra_open_set_add(f, ns, node, desired)
      [] strat = "DL"   -> depth_limited_open_set_add(f, ns, node)
      [] strat = "HC"   -> hill_climb_open_set_add(f, ns, node, desired, "manhattan_distance")

open_set_get(strat, f) ==
    CASE strat = "DFS" -> depth_first_open_set_get(f)
      [] strat = "BFS" -> breadth_first_open_set_get(f)
      [] strat \in PriorityStrategies -> priority_open_set_get(f)
      [] strat = "DL"  -> depth_limited_open_set_get(f)

\* every answer of a get when the priority queue may order equal priorities in
\* any way: any entry of least priority leaves; the other strategies are unaffected
RemoveAt(seq, i) == SubSeq(seq, 1, i - 1) \o SubSeq(seq, i + 1, Len(seq))

any_tie_open_set_get(strat, f) ==
    IF strat \notin PriorityStrategies THEN {open_set_get(strat, f)}
    ELSE IF f.open_set = <<>> THEN {Raised(f)}
    ELSE {Got(f.open_set[i][2], [f EXCEPT !.open_set = RemoveAt(@, i)]) :
            i \in {i \in 1 .. Len(f.open_set) :
                     \A j \in 1 .. Len(f.open_set) : f.open_set[i][1] <= f.open_set[j][1]}}

-----------------------------------------------------------------------------
(* _search *)

\* _search.open_set_add_if_new; a is [nodes, f], cur the index of current_node
open_set_add_if_new(strat, a, closed, cur, desired, successor_state, action_taken) ==
    IF _state_is_valid(successor_state, closed)
    THEN Bind(Append(a.nodes, Node(a.nodes, successor_state, cur, action_taken)),
              LAMBDA ns : [nodes |-> ns,
                           f |-> open_set_add(strat, a.f, ns, Len(ns), desired)])
    ELSE a

\* reconstruct_actions looping until the node is None: the root's action is taken too
RECURSIVE reconstruct_actions_with_root(_, _)
reconstruct_actions_with_root(ns, node) ==
    IF node # NoParent
    THEN <<ns[node].action_taken>> \o reconstruct_actions_with_root(ns, ns[node].parent)
    ELSE <<>>

\* _search.reconstruct_actions
RECURSIVE reconstruct_actions(_, _)
reconstruct_actions(ns, node) ==
    IF ns[node].action_taken # None
    THEN <<ns[node].action_taken>> \o reconstruct_actions(ns, ns[node].parent)
    ELSE <<>>

\* the loop condition comparing identities (is not) instead of values
loop_condition_identity(state, desired) == TRUE

\* the loop condition of _search
loop_condition(state, desired) == state # desired

\* the four calls in the order right, down, left, up
add_successors_reversed(strat, a, closed, cur, desired) ==
    LET s == a.nodes[cur].state
    IN  Bind(right(s), LAMBDA s1 :
        Bind(open_set_add_if_new(strat, a, closed, cur, desired, s1, "Right;"), LAMBDA a1 :
        Bind(down(s), LAMBDA s2 :
        Bind(open_set_add_if_new(strat, a1, closed, cur, desired, s2, "Down;"), LAMBDA a2 :
        Bind(left(s), LAMBDA s3 :
        Bind(open_set_add_if_new(strat, a2, closed, cur, desired, s3, "Left;"), LAMBDA a3 :
        Bind(up(s), LAMBDA s4 :
             open_set_add_if_new(strat, a3, closed, cur, desired, s4, "Up;"))))))))

\* the four open_set_add_if_new calls of one pass of the loop, in their order;
\* a is [nodes, f] before them, closed the closed set after insort
add_successors(strat, a, closed, cur, desired) ==
    LET s == a.nodes[cur].state
    IN  Bind(up(s), LAMBDA s1 :
        Bind(open_set_add_if_new(strat, a, closed, cur, desired, s1, "Up;"), LAMBDA a1 :
        Bind(left(s), LAMBDA s2 :
        Bind(open_set_add_if_new(strat, a1, closed, cur, desired, s2, "Left;"), LAMBDA a2 :
        Bind(down(s), LAMBDA s3 :
        Bind(open_set_add_if_new(strat, a2, closed, cur, desired, s3, "Down;"), LAMBDA a3 :
        Bind(right(s), LAMBDA s4 :
             open_set_add_if_new(strat, a3, closed, cur, desired, s4, "Right;"))))))))

\* the count taken before the last state was inserted
exhausted_result_before_insert(closed) == <<Len(closed) - 1, NoneActions>>

\* what _search returns when open_set_get raises
exhausted_result(closed) == <<Len(closed), NoneActions>>

\* what _search returns when the loop ends
found_result(closed, ns, node) == <<Len(closed), reconstruct_actions(ns, node)>>

\* one pass of the loop body up to open_set_get: the closed set after insort,
\* the nodes and the strategy's data after the four open_set_add_if_new calls
LoopPass ==
    Bind(insort(closed_set, nodes[current_node].state), LAMBDA closed :
    Bind(add_successors(strategy,
                        [nodes |-> nodes,
                         f |-> [open_set |-> open_set, paused_set |-> paused_set,
                                iteration |-> iteration]],
                        closed, current_node, desired_state), LAMBDA a :
         [closed_set |-> closed, nodes |-> a.nodes, f |-> a.f]))

\* the rest of the pass; p is LoopPass, g the answer of open_set_get
LoopBody(p, g) ==
    /\ closed_set' = p.closed_set
    /\ nodes' = p.nodes
    /\ open_set' = g.f.open_set
    /\ paused_set' = g.f.paused_set
    /\ iteration' = g.f.iteration
    /\ IF g.ok
       THEN /\ current_node' = g.node
            /\ UNCHANGED <<pc, result>>
       ELSE /\ pc' = "done"
            /\ result' = exhausted_result(p.closed_set)
            /\ UNCHANGED current_node
    /\ UNCHANGED <<initial_state, desired_state, strategy, max_depth, name, any_tie>>

InLoop ==
    /\ pc = "loop"
    /\ loop_condition(nodes[current_node].state, desired_state)

\* a pass of the loop whose open_set_get returns a node
Expand ==
    /\ InLoop
    /\ ~any_tie
    /\ \E p \in {LoopPass} :
          \E g \in {open_set_get(strategy, p.f)} : g.ok /\ LoopBody(p, g)

\* a pass of the loop whose open_set_get raises: return len(closed_set), None
Exhaust ==
    /\ InLoop
    /\ ~any_tie
    /\ \E p \in {LoopPass} :
          \E g \in {open_set_get(strategy, p.f)} : ~g.ok /\ LoopBody(p, g)

\* the same two with equal priorities ordered arbitrarily
ExpandAnyTie ==
    /\ InLoop
    /\ any_tie
    /\ \E p \in {LoopPass} :
          \E g \in any_tie_open_set_get(strategy, p.f) : g.ok /\ LoopBody(p, g)

ExhaustAnyTie ==
    /\ InLoop
    /\ any_tie
    /\ \E p \in {LoopPass} :
          \E g \in any_tie_open_set_get(strategy, p.f) : ~g.ok /\ LoopBody(p, g)

\* the loop ends: return len(closed_set), reconstruct_actions(current_node)
Finish ==
    /\ pc = "loop"
    /\ ~loop_condition(nodes[current_node].state, desired_state)
    /\ pc' = "done"
    /\ result' = found_result(closed_set, nodes, current_node)
    /\ UNCHANGED <<initial_state, desired_state, strategy, nodes, current_node,
                   closed_set, open_set, paused_set, iteration, max_depth, name,
                   any_tie>>

\* _search as a function of its arguments: the while loop run from the state
\* (closed, ns, cur, f) to the return
RECURSIVE _search_loop(_, _, _, _, _, _)
_search_loop(strat, desired, closed, ns, cur, f) ==
    IF ~loop_condition(ns[cur].state, desired)
    THEN found_result(closed, ns, cur)
    ELSE Bind(insort(closed, ns[cur].state), LAMBDA c :
         Bind(add_successors(strat, [nodes |-> ns, f |-> f], c, cur, desired), LAMBDA a :
         Bind(open_set_get(strat, a.f), LAMBDA g :
              IF g.ok THEN _search_loop(strat, desired, c, a.nodes, g.node, g.f)
              ELSE exhausted_result(c))))

\* the strategy function strat called with (initial, desired)
_search(strat, initial, desired) ==
    _search_loop(strat, desired, <<>>, <<Node(<<>>, initial, NoParent, None)>>, 1,
                 [open_set |-> <<>>, paused_set |-> <<>>, iteration |-> 1])

-----------------------------------------------------------------------------
(* The instances searched *)

\* every pair of grids of the same dimensions up to MaxArea cells
SmallInstances ==
    UNION {GridsOf(d[1], d[2]) \X GridsOf(d[1], d[2]) : d \in Dimensions}

\* 2 columns x 3 rows and 3 columns x 2 rows
ScenarioInstances ==
    { <<Grid(<<<<1, 5>>, <<4, 2>>, <<0, 3>>>>), Grid(<<<<3, 2>>, <<1, 0>>, <<5, 4>>>>)>>,
      <<Grid(<<<<1, 2>>, <<3, 4>>, <<0, 5>>>>), Grid(<<<<3, 1>>, <<2, 4>>, <<5, 0>>>>)>>,
      <<Grid(<<<<1, 0, 4>>, <<5, 3, 2>>>>), Grid(<<<<2, 1, 5>>, <<3, 0, 4>>>>)>> }

Instances == SmallInstances \cup ScenarioInstances

\* a strategy function is called with (initial_state, desired_state):
\* closed_set = [], current_node = Node(initial_state, None, None), and the
\* strategy's own data as its first lines set it; max_depth is set apart
InitSearch(instances, strategies) ==
    /\ \E inst \in instances :
          /\ initial_state = inst[1]
          /\ desired_state = inst[2]
    /\ strategy \in strategies
    /\ nodes = <<Node(<<>>, initial_state, NoParent, None)>>
    /\ current_node = 1
    /\ closed_set = <<>>
    /\ open_set = <<>>
    /\ paused_set = <<>>
    /\ iteration = 1
    /\ pc = "loop"
    /\ result = NotReturned
    /\ name = NoName

\* max_depth = 3, as depth_limited sets it
Init == InitSearch(Instances, Strategies) /\ max_depth = 3 /\ any_tie = FALSE

Next == Expand \/ Exhaust \/ Finish

Spec == Init /\ [][Next]_vars

\* the search runs on: a Python call does not stop half way
FairSpec == Spec /\ WF_vars(Next)

\* breadth_first and dijkstra with the priority queue free to order equal priorities
InitAnyTie ==
    InitSearch(SmallInstances, {"BFS", "DIJ"}) /\ max_depth = 3 /\ any_tie = TRUE

NextAnyTie == ExpandAnyTie \/ ExhaustAnyTie \/ Finish

SpecAnyTie == InitAnyTie /\ [][NextAnyTie]_vars

\* hill_climb alone
InitHillClimb == InitSearch(Instances, {"HC"}) /\ max_depth = 3 /\ any_tie = FALSE

SpecHillClimb == InitHillClimb /\ [][Next]_vars

\* depth_limited with its configurable max_depth set to 1
InitMaxDepth1 ==
    InitSearch(Instances, {"DL"}) /\ max_depth = 1 /\ any_tie = FALSE

SpecMaxDepth1 == InitMaxDepth1 /\ [][Next]_vars

-----------------------------------------------------------------------------
(* strategy_by_name, and main.py's call of it *)

\* a name is a sequence of one-character strings; str.upper() on the letters used
ToUpper ==
    [c \in {"a", "b", "c", "d", "f", "g", "h", "i", "j", "l", "s", "x"} |->
        CASE c = "a" -> "A" [] c = "b" -> "B" [] c = "c" -> "C" [] c = "d" -> "D"
          [] c = "f" -> "F" [] c = "g" -> "G" [] c = "h" -> "H" [] c = "i" -> "I"
          [] c = "j" -> "J" [] c = "l" -> "L" [] c = "s" -> "S" [] c = "x" -> "X"]

upper(n) ==
    [i \in 1 .. Len(n) |-> IF n[i] \in DOMAIN ToUpper THEN ToUpper[n[i]] ELSE n[i]]

\* the spelling of each key of `methods'
KeyOf ==
    [st \in Strategies |->
        CASE st = "DFS"  -> <<"D", "F", "S">>
          [] st = "BFS"  -> <<"B", "F", "S">>
          [] st = "GBFS" -> <<"G", "B", "F", "S">>
          [] st = "AS"   -> <<"A", "S">>
          [] st = "DIJ"  -> <<"D", "I", "J">>
          [] st = "DL"   -> <<"D", "L">>
          [] st = "HC"   -> <<"H", "C">>]

\* the dict `methods': key -> strategy function
methods ==
    [k \in {KeyOf[st] : st \in Strategies} |-> CHOOSE st \in Strategies : KeyOf[st] = k]

AssertionError == "AssertionError"
KeyError == "KeyError"

strategy_by_name(n) ==
    IF n \notin DOMAIN methods THEN AssertionError
    ELSE IF upper(n) \notin DOMAIN methods THEN KeyError
    ELSE methods[upper(n)]

\* every upper/lower/mixed-case spelling of a key
Spellings(key) ==
    {n \in [1 .. Len(key) -> {"A", "B", "C", "D", "F", "G", "H", "I", "J", "L", "S",
                              "a", "b", "c", "d", "f", "g", "h", "i", "j", "l", "s"}] :
        upper(n) = key}

OtherNames ==
    { <<>>, <<"X">>, <<"x">>, <<"D", "F">>, <<"I", "D", "S">>, <<"d", "f", "s", "x">>,
      <<"A", "*">>, <<"D", "F", "S", " ">> }

Names == UNION {Spellings(KeyOf[st]) : st \in Strategies} \cup OtherNames

\* the puzzles main.py reads in the runs that start from a name
NamedRunInstances ==
    { <<Grid(<<<<0, 1>>, <<2, 3>>>>), Grid(<<<<2, 1>>, <<3, 0>>>>)>>,
      <<Grid(<<<<0, 1>>, <<2, 3>>>>), Grid(<<<<0, 1>>, <<3, 2>>>>)>> }

\* main.py: the puzzle is read, strategy_by_name(method) is about to be called
InitByName ==
    /\ \E inst \in NamedRunInstances :
          /\ initial_state = inst[1]
          /\ desired_state = inst[2]
    /\ name \in Names
    /\ strategy = NoStrategy
    /\ nodes = <<>>
    /\ current_node = NoParent
    /\ closed_set = <<>>
    /\ open_set = <<>>
    /\ paused_set = <<>>
    /\ iteration = 1
    /\ max_depth = 3
    /\ pc = "select"
    /\ result = NotReturned
    /\ any_tie = FALSE

\* strategy_by_name(method): returns the function or raises
SelectStrategy ==
    /\ pc = "select"
    /\ LET r == strategy_by_name(name)
       IN  IF r \in Strategies
           THEN pc' = "selected" /\ strategy' = r
           ELSE pc' = "error" /\ UNCHANGED strategy
    /\ UNCHANGED <<initial_state, desired_state, nodes, current_node, closed_set,
                   open_set, paused_set, iteration, max_depth, result, name, any_tie>>

\* the returned function is called with (initial_state, desired_state)
CallStrategy ==
    /\ pc = "selected"
    /\ pc' = "loop"
    /\ nodes' = <<Node(<<>>, initial_state, NoParent, None)>>
    /\ current_node' = 1
    /\ UNCHANGED <<initial_state, desired_state, strategy, closed_set, open_set,
                   paused_set, iteration, max_depth, result, name, any_tie>>

NextByName == SelectStrategy \/ CallStrategy \/ Expand \/ Exhaust \/ Finish

SpecByName == InitByName /\ [][NextByName]_vars

-----------------------------------------------------------------------------
(* What the claims are measured against *)

\* the move an action label names
ApplyAction(state, action) ==
    CASE action = "Up;"    -> up(state)
      [] action = "Left;"  -> left(state)
      [] action = "Down;"  -> down(state)
      [] action = "Right;" -> right(state)
      [] OTHER             -> NoneState

\* the state after taking the actions first to last; NoneState once one is invalid
RECURSIVE Replay(_, _)
Replay(state, actions) ==
    IF actions = <<>> \/ state = NoneState THEN state
    ELSE Replay(ApplyAction(state, Head(actions)), Tail(actions))

Successors(state) == {up(state), left(state), down(state), right(state)} \ {NoneState}

\* the least number of moves from a state of `layer' to goal, d being the
\* distance of layer from the start; negative when there is no path
RECURSIVE DistanceFrom(_, _, _, _)
DistanceFrom(layer, seen, goal, d) ==
    IF goal \in layer THEN d
    ELSE LET next == UNION {Successors(st) : st \in layer} \ seen
         IN  IF next = {} THEN -1
             ELSE DistanceFrom(next, seen \cup next, goal, d + 1)

Distance(from, goal) == DistanceFrom({from}, {from}, goal, 0)

Returned == pc = "done"
Solution == result[2]
FoundSolution == Returned /\ Solution # NoneActions

Solvable == Distance(initial_state, desired_state) >= 0

CurrentState == nodes[current_node].state

-----------------------------------------------------------------------------
(* The claims *)

\* C1: whenever a search returns an action sequence, taking its actions in the
\* order returned, first element first, from initial_state leads exactly to
\* desired_state, no action being an invalid move.
C1_ReplayReachesGoal ==
    FoundSolution => Replay(initial_state, Solution) = desired_state

\* C2: on every solvable instance breadth_first and dijkstra return an action
\* sequence as long as the shortest path from initial_state to desired_state,
\* however the priority queue orders entries of equal priority.
C2_ShortestPath ==
    (Returned /\ strategy \in {"BFS", "DIJ"} /\ Solvable)
        => /\ Solution # NoneActions
           /\ Len(Solution) = Distance(initial_state, desired_state)

C2_Witness ==
    /\ FoundSolution
    /\ strategy = "DIJ"
    /\ any_tie
    /\ Len(Solution) >= 5

\* C3: on every solvable instance a_star with manhattan_distance returns an
\* action sequence as long as the shortest path.
C3_AStarShortestPath ==
    (Returned /\ strategy = "AS" /\ Solvable)
        => /\ Solution # NoneActions
           /\ Len(Solution) = Distance(initial_state, desired_state)

\* C4: for a state from which the goal is reachable, number_of_misplaced_tiles
\* and manhattan_distance are at most the least number of moves to the goal,
\* and both are 0 when the state is the goal.
C4_HeuristicsAdmissible ==
    pc = "loop" =>
        LET d == Distance(CurrentState, desired_state)
        IN  d >= 0 =>
              /\ number_of_misplaced_tiles(CurrentState, desired_state) <= d
              /\ manhattan_distance(CurrentState, desired_state) <= d
              /\ (CurrentState = desired_state =>
                    /\ number_of_misplaced_tiles(CurrentState, desired_state) = 0
                    /\ manhattan_distance(CurrentState, desired_state) = 0)

\* C5: depth_first, breadth_first, greedy_best_first, a_star, dijkstra and
\* depth_limited, run on an instance whose desired_state is reachable,
\* eventually return an action sequence, never the no-solution result.
C5_Completeness ==
    (strategy \in {"DFS", "BFS", "GBFS", "AS", "DIJ", "DL"})
        => <>(Returned /\ (Solvable => Solution # NoneActions))

C5_Witness ==
    /\ FoundSolution
    /\ strategy = "DL"
    /\ iteration >= 3

C7_NoStateExpandedTwice ==
    \A i, j \in 1 .. Len(closed_set) : closed_set[i] = closed_set[j] => i = j

\* C8: for every state and direction, the move returns None exactly when the
\* blank's target cell is outside the grid, and otherwise the state with the
\* blank and the target tile swapped and every other cell as it was; the
\* states already held by nodes are never changed.
DirectionOffsets == {<<0, -1>>, <<-1, 0>>, <<0, 1>>, <<1, 0>>}

DirectionMove(state, offset) ==
    CASE offset = <<0, -1>> -> up(state)
      [] offset = <<-1, 0>> -> left(state)
      [] offset = <<0, 1>>  -> down(state)
      [] offset = <<1, 0>>  -> right(state)

MoveIsSwapOrNone(state, offset) ==
    LET blank  == CHOOSE c \in Cells(state) : state[c[1]][c[2]] = 0
        target == <<blank[1] + offset[1], blank[2] + offset[2]>>
        moved  == DirectionMove(state, offset)
    IN  IF target \notin Cells(state)
        THEN moved = NoneState
        ELSE /\ moved # NoneState
             /\ DOMAIN moved = DOMAIN state
             /\ \A x \in DOMAIN state : DOMAIN moved[x] = DOMAIN state[x]
             /\ moved[blank[1]][blank[2]] = state[target[1]][target[2]]
             /\ moved[target[1]][target[2]] = 0
             /\ \A c \in Cells(state) \ {blank, target} :
                    moved[c[1]][c[2]] = state[c[1]][c[2]]

C8_MoveSwapsOrNone ==
    /\ [](pc = "loop" => \A offset \in DirectionOffsets : MoveIsSwapOrNone(CurrentState, offset))
    /\ [][\A i \in 1 .. Len(nodes) : nodes'[i] = nodes[i]]_vars

C8_Witness ==
    /\ pc = "loop"
    /\ Len(nodes) > 1
    /\ up(CurrentState) = NoneState
    /\ right(CurrentState) = NoneState
    /\ left(CurrentState) # NoneState
    /\ down(CurrentState) # NoneState

\* C9: when initial_state equals desired_state every strategy returns count 0
\* and an empty action sequence, not None, having expanded nothing and left
\* the frontier untouched.
C9_GoalAtStart ==
    (Returned /\ initial_state = desired_state)
        => /\ result = <<0, <<>>>>
           /\ closed_set = <<>>
           /\ open_set = <<>>
           /\ paused_set = <<>>
           /\ Len(nodes) = 1

C9_Witness ==
    /\ Returned
    /\ initial_state = desired_state
    /\ strategy = "HC"
    /\ Width(initial_state) = 2
    /\ Height(initial_state) = 2

\* C10: strategy_by_name returns the strategy of every upper, lower or mixed
\* case spelling of DFS, BFS, GBFS, AS, DIJ, DL, HC, and fails for every other
\* name before any search begins.
C10_CaseInsensitiveName ==
    pc # "select" =>
        IF upper(name) \in DOMAIN methods
        THEN pc # "error" /\ strategy = methods[upper(name)]
        ELSE pc = "error" /\ nodes = <<>> /\ closed_set = <<>>

\* C11 as claimed: hill_climb with backtracking_allowed = 2 and
\* manhattan_distance is a_star: in every pass of the loop its open_set_add
\* puts into the frontier exactly what a_star's open_set_add would put there,
\* and the search returns what a_star returns on the same instance.
AfterAdds(strat) ==
    add_successors(strat,
                   [nodes |-> nodes,
                    f |-> [open_set |-> open_set, paused_set |-> paused_set,
                           iteration |-> iteration]],
                   insort(closed_set, CurrentState), current_node, desired_state)

FrontierAfterAdds(strat) == AfterAdds(strat).f.open_set

Entries(heap) == {heap[i] : i \in 1 .. Len(heap)}

ManhattanRisesByTwo(n, ns) ==
    manhattan_distance(ns[n].state, desired_state)
        = manhattan_distance(ns[ns[n].parent].state, desired_state) + 2

C12_ManhattanChangesByAtMostOne ==
    pc = "loop" =>
        \A offset \in DirectionOffsets :
            LET moved == DirectionMove(CurrentState, offset)
            IN  moved # NoneState =>
                    Abs(manhattan_distance(moved, desired_state)
                        - manhattan_distance(CurrentState, desired_state)) <= 1

\* C13: depth_limited with max_depth = 1 removes nodes in non-decreasing depth
\* order: the active stack holds only nodes of the current node's depth and the
\* paused stack only nodes one deeper, each removed node is at least as deep
\* as the one before it, and on a solvable instance the returned sequence is
\* as long as the shortest path.
Depth(node) == nodes[node].num_parents

C13_LevelOrder ==
    /\ \A i \in 1 .. Len(open_set) : Depth(open_set[i]) = Depth(current_node)
    /\ \A i \in 1 .. Len(paused_set) : Depth(paused_set[i]) = Depth(current_node) + 1
    /\ (Returned /\ Solvable)
          => /\ Solution # NoneActions
             /\ Len(Solution) = Distance(initial_state, desired_state)

C13_DepthLimitedBound1 ==
    /\ [](max_depth = 1 => C13_LevelOrder)
    /\ [][max_depth = 1 => Depth(current_node)' >= Depth(current_node)]_vars

C13_Witness ==
    /\ max_depth = 1
    /\ FoundSolution
    /\ iteration >= 5
    /\ Len(Solution) >= 4
    /\ Len(closed_set) >= 8

\* C14 as claimed: every element of a returned action sequence is exactly one
\* of the labels "Up", "Left", "Down", "Right".
C14_BareMoveLabels ==
    FoundSolution =>
        \A i \in 1 .. Len(Solution) : Solution[i] \in {"Up", "Left", "Down", "Right"}

\* C14 as amended: every element of a returned action sequence is exactly one
\* of the four strings "Up;", "Left;", "Down;", "Right;", the move's label
\* followed by the separator.
C14_MoveLabels ==
    FoundSolution =>
        \A i \in 1 .. Len(Solution) : Solution[i] \in {"Up;", "Left;", "Down;", "Right;"}

C14_Witness ==
    /\ FoundSolution
    /\ {Solution[i] : i \in 1 .. Len(Solution)} = {"Up;", "Left;", "Down;", "Right;"}

\* C15: every state held during a search, by a node constructed so far (the
\* current node and the nodes of the frontier among them) or by the closed
\* set, is a rearrangement of initial_state on the same grid: same columns and
\* rows, each label of initial_state exactly once, the blank among them, so
\* that coords_of_tile finds the blank.
Labels(state) == {state[c[1]][c[2]] : c \in Cells(state)}

IsRearrangement(state, labels, cells) ==
    /\ DOMAIN state = DOMAIN initial_state
    /\ \A x \in DOMAIN state : DOMAIN state[x] = DOMAIN initial_state[x]
    /\ \A label \in labels :
          Cardinality({c \in cells : state[c[1]][c[2]] = label}) = 1
    /\ {c \in cells : state[c[1]][c[2]] = 0} # {}

C15_StatesAreRearrangements ==
    LET labels == Labels(initial_state)
        cells  == Cells(initial_state)
    IN  /\ \A i \in 1 .. Len(nodes) : IsRearrangement(nodes[i].state, labels, cells)
        /\ \A i \in 1 .. Len(closed_set) : IsRearrangement(closed_set[i], labels, cells)

C15_Witness ==
    /\ pc = "loop"
    /\ Width(initial_state) = 3
    /\ Len(closed_set) >= 5
    /\ Len(open_set) >= 3
    /\ CurrentState # initial_state

\* C16: in each pass of the loop the current state is first added to the
\* closed set; then Up, Left, Down, Right are offered in this order, a node
\* being constructed for a successor if and only if the move is valid and its
\* state is not in the closed set at that moment; only then is the next node
\* removed. As claimed, every node so constructed is inserted into the frontier.

\* the nodes the frontier holds (the paused stack is part of it)
FrontierNodes ==
    (IF strategy \in PriorityStrategies
     THEN {open_set[i][2] : i \in 1 .. Len(open_set)}
     ELSE {open_set[i] : i \in 1 .. Len(open_set)})
    \cup {paused_set[i] : i \in 1 .. Len(paused_set)}

Offers ==
    << <<up(CurrentState), "Up;">>, <<left(CurrentState), "Left;">>,
       <<down(CurrentState), "Down;">>, <<right(CurrentState), "Right;">> >>

InClosed(state, closed) == \E i \in 1 .. Len(closed) : closed[i] = state

\* the offers that are valid moves to a state not in closed, in their order
AcceptedOffers(closed) ==
    LET Accepted(o) == o[1] # NoneState /\ ~InClosed(o[1], closed)
    IN  SelectSeq(Offers, Accepted)

NodesOfOffers(accepted) ==
    [i \in 1 .. Len(accepted) |->
        [state |-> accepted[i][1], parent |-> current_node,
         action_taken |-> accepted[i][2],
         num_parents |-> nodes[current_node].num_parents + 1]]

\* a step is a pass of the loop exactly when the closed set changes
PassOffersInOrder ==
    /\ Len(closed_set') = Len(closed_set) + 1
    /\ \E i \in 1 .. Len(closed_set') :
          /\ closed_set'[i] = CurrentState
          /\ RemoveAt(closed_set', i) = closed_set
    /\ nodes' = nodes \o NodesOfOffers(AcceptedOffers(closed_set'))

\* the frontier after the pass is the frontier before it with the nodes of
\* `inserted' put in and then the next node, if there is one, taken out
PassRemovesAfterOffers(inserted) ==
    IF pc' = "done"
    THEN FrontierNodes \cup inserted = {} /\ FrontierNodes' = {}
    ELSE /\ current_node' \in FrontierNodes \cup inserted
         /\ FrontierNodes' = (FrontierNodes \cup inserted) \ {current_node'}

NewNodes == Len(nodes) + 1 .. Len(nodes')

HillClimbPriority(n, ns) ==
    ns[n].num_parents + manhattan_distance(ns[n].state, desired_state)

HillClimbKeeps(n, ns) ==
    HillClimbPriority(n, ns) <= HillClimbPriority(ns[n].parent, ns) + backtracking_allowed

InsertedNodes ==
    IF strategy = "HC" THEN {n \in NewNodes : HillClimbKeeps(n, nodes')}
    ELSE NewNodes

C17_DepthAndSolutionLength ==
    /\ \A i \in 1 .. Len(nodes) :
          IF nodes[i].parent = NoParent
          THEN i = 1 /\ nodes[i].num_parents = 0
          ELSE /\ nodes[i].parent \in 1 .. i - 1
               /\ nodes[i].num_parents = nodes[nodes[i].parent].num_parents + 1
    /\ FoundSolution => Len(Solution) = nodes[current_node].num_parents

C17_Witness ==
    /\ FoundSolution
    /\ strategy = "DFS"
    /\ Len(Solution) >= 6
    /\ Len(Solution) > Distance(initial_state, desired_state)

\* C18: in depth_limited, after every open_set_add and open_set_get, every
\* node of open_set has depth < max_depth * iteration and every node of
\* paused_set has depth exactly max_depth * iteration; paused_set becomes
\* open_set, and iteration grows by 1, only in an open_set_get that finds
\* open_set empty.
Range(seq) == {seq[i] : i \in 1 .. Len(seq)}

StacksWithinDepths(ns, f) ==
    /\ \A n \in Range(f.open_set) : ns[n].num_parents < max_depth * f.iteration
    /\ \A n \in Range(f.paused_set) : ns[n].num_parents = max_depth * f.iteration

\* between the four adds of a pass and its get, and after the get
C18_StackDepths ==
    strategy = "DL" =>
        /\ StacksWithinDepths(nodes, [open_set |-> open_set, paused_set |-> paused_set,
                                      iteration |-> iteration])
        /\ InLoop => StacksWithinDepths(LoopPass.nodes, LoopPass.f)

\* a step that changes iteration adds 1 to it, had nothing in open_set when the
\* get was called, and moves every paused node to open_set; any other step
\* leaves the paused nodes paused
C18_PromotionStep ==
    IF iteration' # iteration
    THEN /\ iteration' = iteration + 1
         /\ open_set = <<>>
         /\ \A n \in NewNodes : nodes'[n].num_parents >= max_depth * iteration
         /\ paused_set' = <<>>
         /\ Range(open_set') \cup (IF pc' = "done" THEN {} ELSE {current_node'})
                = Range(paused_set) \cup NewNodes
    ELSE /\ Range(paused_set) \subseteq Range(paused_set')
         /\ Range(open_set') \cap Range(paused_set) = {}

C18_DepthLimitedStacks ==
    /\ []C18_StackDepths
    /\ [][strategy = "DL" => C18_PromotionStep]_vars

C18_Witness ==
    /\ strategy = "DL"
    /\ max_depth = 3
    /\ pc = "loop"
    /\ iteration >= 2
    /\ open_set # <<>>
    /\ paused_set # <<>>

\* C19: when a node is created its state differs from the state of each of
\* its ancestors and the states of all its ancestors are in the closed set;
\* nodes are never changed and the closed set never loses an entry, so this
\* stays true of every node; and no node is deeper than the number of states
\* reachable from initial_state minus one.
RECURSIVE AncestorsOf(_, _)
AncestorsOf(ns, n) ==
    IF ns[n].parent = NoParent THEN {}
    ELSE {ns[n].parent} \cup AncestorsOf(ns, ns[n].parent)

RECURSIVE ReachableFrom(_, _)
ReachableFrom(layer, seen) ==
    LET next == UNION {Successors(st) : st \in layer} \ seen
    IN  IF next = {} THEN seen ELSE ReachableFrom(next, seen \cup next)

Reachable(state) == ReachableFrom({state}, {state})

C19_NodeCreation ==
    /\ \A n \in NewNodes :
          \A a \in AncestorsOf(nodes', n) :
              /\ nodes'[a].state # nodes'[n].state
              /\ InClosed(nodes'[a].state, closed_set')
    /\ SubSeq(nodes', 1, Len(nodes)) = nodes
    /\ Range(closed_set) \subseteq Range(closed_set')

C19_DepthBound ==
    Returned =>
        LET deepest == Cardinality(Reachable(initial_state)) - 1
        IN  \A n \in 1 .. Len(nodes) : nodes[n].num_parents <= deepest

C19_AncestorsDifferAndClosed ==
    /\ [][C19_NodeCreation]_vars
    /\ []C19_DepthBound

C19_Witness ==
    /\ pc = "loop"
    /\ Len(closed_set) >= 6
    /\ \E n \in 1 .. Len(nodes) :
          /\ nodes[n].num_parents >= 5
          /\ \E m \in 1 .. Len(nodes) :
                m # n /\ m \notin AncestorsOf(nodes, n) /\ nodes[m].state = nodes[n].state

\* C20: under breadth_first and dijkstra each node removed from the frontier is
\* at least as deep as the one removed before it, and at every moment, after
\* the adds of a pass as well as after its get, the depths of the nodes in the
\* frontier differ by at most 1.
DepthsWithinOne(ns, frontier) ==
    \A m, n \in frontier : ns[m].num_parents - ns[n].num_parents <= 1

QueuedNodes(queue) ==
    IF strategy \in PriorityStrategies
    THEN {queue[i][2] : i \in 1 .. Len(queue)}
    ELSE Range(queue)

C20_FrontierDepths ==
    strategy \in {"BFS", "DIJ"} =>
        /\ DepthsWithinOne(nodes, QueuedNodes(open_set))
        /\ InLoop => DepthsWithinOne(LoopPass.nodes, QueuedNodes(LoopPass.f.open_set))

\* the node a step makes current is at least as deep as the current one
C20_RemovalStep ==
    strategy \in {"BFS", "DIJ"} => Depth(current_node)' >= Depth(current_node)

C20_RemovalOrder ==
    /\ []C20_FrontierDepths
    /\ [][C20_RemovalStep]_vars

C20_Witness ==
    /\ strategy = "DIJ"
    /\ pc = "loop"
    /\ Depth(current_node) >= 3
    /\ \E m, n \in QueuedNodes(open_set) : Depth(m) # Depth(n)

=============================================================================
